---- MODULE Spec2Model ----
(***************************************************************************)
(* Sliding tile puzzle (sliding_puzzle.py): the puzzle state machine, the  *)
(* move executor, the shuffler, the per-frame animation and the win check. *)
(*                                                                         *)
(* Grid positions are pairs <<x, y>> (column, row).  Pixel coordinates are *)
(* Python floats in the source; here they are fixed-point integers with    *)
(* PixelScale units per pixel, and the division by ANIMATION_SPEED         *)
(* truncates to one unit.  With PixelScale = 1000 a slide over one cell    *)
(* takes 72 ticks and over two cells 82 ticks, as it does with floats.     *)
(***************************************************************************)
EXTENDS Integers, Sequences, FiniteSets, TLC

\* ------------------------------------------------------------------ bounds
MaxGridSize == 3      \* grid sizes 2..MaxGridSize are explored
ShuffleMoves == 2     \* num_moves of shuffle_puzzle (the source's default is 100)
MaxMoves == 2         \* player input is explored while moves < MaxMoves

\* --------------------------------------------------------------- constants
WINDOW_WIDTH == 800
WINDOW_HEIGHT == 700
TILE_SIZE == 120
GRID_MARGIN == 10
ANIMATION_SPEED == 15
PixelScale == 1000

VARIABLES grid_size, tiles, empty_pos, moves, game_won, animating, last, frame

vars == <<grid_size, tiles, empty_pos, moves, game_won, animating, last, frame>>

\* ----------------------------------------------------------------- helpers
Abs(x) == IF x < 0 THEN -x ELSE x

\* x / d for a float x, in fixed point: truncated toward zero
Quot(x, d) == IF x < 0 THEN -((-x) \div d) ELSE x \div d

InGrid(pos, n) == /\ 0 <= pos[1] /\ pos[1] < n
                  /\ 0 <= pos[2] /\ pos[2] < n

Cells(n) == (0..(n - 1)) \X (0..(n - 1))

\* pixel position (in fixed-point units) of the grid coordinate c
PixelOf(c) == c * (TILE_SIZE + GRID_MARGIN) * PixelScale

\* -------------------------------------------------------------- class Tile
Tile(number, pos) ==
    [number |-> number, grid_pos |-> pos, target_pos |-> pos,
     current_pixel_pos |-> <<0, 0>>]

update_position(tile, new_pos) == [tile EXCEPT !.target_pos = new_pos]

\* Tile.animate without the snap: the pure fractional approach
AnimateAxis_NoSnap(cur, target_pixel) ==
    cur + Quot(target_pixel - cur, ANIMATION_SPEED)

\* one axis of Tile.animate
AnimateAxis(cur, target_pixel) ==
    LET d == target_pixel - cur
    IN  IF Abs(d) > PixelScale THEN cur + Quot(d, ANIMATION_SPEED)
                               ELSE target_pixel

animate(tile) ==
    LET target_pixel_x == PixelOf(tile.target_pos[1])
        target_pixel_y == PixelOf(tile.target_pos[2])
        px == AnimateAxis(tile.current_pixel_pos[1], target_pixel_x)
        py == AnimateAxis(tile.current_pixel_pos[2], target_pixel_y)
    IN  [tile EXCEPT !.current_pixel_pos = <<px, py>>,
                     !.grid_pos = IF px = target_pixel_x /\ py = target_pixel_y
                                  THEN tile.target_pos ELSE @]

is_animating(tile) == tile.grid_pos # tile.target_pos

\* ----------------------------------------------------- class SlidingPuzzle
\* A puzzle value p is the record of the game-state fields of the object.

\* SlidingPuzzle.__init__ up to the call of init_puzzle
Construct(n) ==
    [grid_size |-> n, tiles |-> <<>>, empty_pos |-> <<n - 1, n - 1>>,
     moves |-> 0, game_won |-> FALSE, animating |-> FALSE]

grid_offset(n) ==
    <<(WINDOW_WIDTH - (TILE_SIZE * n + GRID_MARGIN * (n - 1))) \div 2, 120>>

directions == << <<0, 1>>, <<0, -1>>, <<1, 0>>, <<-1, 0>> >>

\* get_valid_moves with the upper bound test written <= instead of <
get_valid_moves_OffByOne(p) ==
    LET cand == [i \in 1..4 |-> <<p.empty_pos[1] + directions[i][1],
                                  p.empty_pos[2] + directions[i][2]>>]
        ok(c) == /\ 0 <= c[1] /\ c[1] <= p.grid_size
                 /\ 0 <= c[2] /\ c[2] <= p.grid_size
    IN  SelectSeq(cand, ok)

get_valid_moves(p) ==
    LET cand == [i \in 1..4 |-> <<p.empty_pos[1] + directions[i][1],
                                  p.empty_pos[2] + directions[i][2]>>]
        ok(c) == InGrid(c, p.grid_size)
    IN  SelectSeq(cand, ok)

\* index of the first tile whose grid_pos is pos; 0 stands for None
get_tile_at_pos(p, pos) ==
    LET hits == {i \in 1..Len(p.tiles) : p.tiles[i].grid_pos = pos}
    IN  IF hits = {} THEN 0
        ELSE CHOOSE i \in hits : \A j \in hits : i <= j

swap_tiles(p, tile_pos, count_move) ==
    LET t == get_tile_at_pos(p, tile_pos)
    IN  IF t # 0 /\ p.tiles[t].number # 0
        THEN LET old_pos == p.tiles[t].grid_pos
                 tiles1 == [p.tiles EXCEPT
                              ![t] = update_position(@, p.empty_pos)]
                 e == get_tile_at_pos([p EXCEPT !.tiles = tiles1], p.empty_pos)
                 tiles2 == IF e # 0
                           THEN [tiles1 EXCEPT
                                   ![e] = update_position(@, old_pos)]
                           ELSE tiles1
             IN  [p EXCEPT !.tiles = tiles2,
                           !.empty_pos = old_pos,
                           !.moves = IF count_move THEN @ + 1 ELSE @,
                           !.animating = IF count_move THEN TRUE ELSE @]
        ELSE p

\* one iteration of the loop of shuffle_puzzle: every value random.choice
\* can return gives one outcome
ShuffleStep(p) ==
    LET valid_moves == get_valid_moves(p)
    IN  IF Len(valid_moves) > 0
        THEN {swap_tiles(p, valid_moves[i], FALSE) : i \in 1..Len(valid_moves)}
        ELSE {p}

\* the puzzles shuffle_puzzle(num_moves) can leave, starting from one of P
RECURSIVE shuffle_puzzle(_, _)
shuffle_puzzle(P, num_moves) ==
    IF num_moves = 0 THEN P
    ELSE shuffle_puzzle(UNION {ShuffleStep(p) : p \in P}, num_moves - 1)

\* init_puzzle without the assignment of current_pixel_pos: the tiles keep
\* the [0, 0] of Tile.__init__
SolvedTiles_NoPixel(n) ==
    [i \in 1..(n * n) |->
        LET row == (i - 1) \div n
            col == (i - 1) % n
            tile_num == IF i = n * n THEN 0 ELSE i
        IN  Tile(tile_num, <<col, row>>)]

\* the tiles init_puzzle creates, row by row, before it shuffles
SolvedTiles(n) ==
    [i \in 1..(n * n) |->
        LET row == (i - 1) \div n
            col == (i - 1) % n
            tile_num == IF i = n * n THEN 0 ELSE i
        IN  [Tile(tile_num, <<col, row>>) EXCEPT
               !.current_pixel_pos = <<PixelOf(col), PixelOf(row)>>]]

\* the boards the shuffle in init_puzzle can leave, per grid size.  The
\* shuffle reads and writes only tiles and empty_pos, so it is worked out once
\* for the tiles init_puzzle creates
ShuffledBoards ==
    [n \in 2..MaxGridSize |->
        shuffle_puzzle({[Construct(n) EXCEPT !.tiles = SolvedTiles(n),
                                             !.empty_pos = <<n - 1, n - 1>>]},
                       ShuffleMoves)]

\* the puzzles init_puzzle can leave
init_puzzle(p) ==
    {[p EXCEPT !.tiles = s.tiles, !.empty_pos = s.empty_pos,
               !.moves = 0, !.game_won = FALSE] :
        s \in ShuffledBoards[p.grid_size]}

\* the grid cell handle_click computes for a mouse position
ClickCell(n, mouse_pos) ==
    <<(mouse_pos[1] - grid_offset(n)[1]) \div (TILE_SIZE + GRID_MARGIN),
      (mouse_pos[2] - grid_offset(n)[2]) \div (TILE_SIZE + GRID_MARGIN)>>

InSeq(x, s) == \E i \in 1..Len(s) : s[i] = x

\* handle_click without the test that the cell is a valid move
handle_click_NoValidCheck(p, mouse_pos) ==
    IF p.game_won \/ p.animating THEN p
    ELSE LET g == ClickCell(p.grid_size, mouse_pos)
         IN  IF InGrid(g, p.grid_size) THEN swap_tiles(p, g, TRUE) ELSE p

handle_click(p, mouse_pos) ==
    IF p.game_won \/ p.animating THEN p
    ELSE LET g == ClickCell(p.grid_size, mouse_pos)
         IN  IF InGrid(g, p.grid_size) /\ InSeq(g, get_valid_moves(p))
             THEN swap_tiles(p, g, TRUE)
             ELSE p

Keys == {"K_UP", "K_DOWN", "K_LEFT", "K_RIGHT", "K_SPACE"}

\* move_map with the vertical directions exchanged
move_map_Mirrored == [k \in {"K_UP", "K_DOWN", "K_LEFT", "K_RIGHT"} |->
                        CASE k = "K_UP" -> <<0, -1>>
                          [] k = "K_DOWN" -> <<0, 1>>
                          [] k = "K_LEFT" -> <<1, 0>>
                          [] k = "K_RIGHT" -> <<-1, 0>>]

move_map == [k \in {"K_UP", "K_DOWN", "K_LEFT", "K_RIGHT"} |->
               CASE k = "K_UP" -> <<0, 1>>
                 [] k = "K_DOWN" -> <<0, -1>>
                 [] k = "K_LEFT" -> <<1, 0>>
                 [] k = "K_RIGHT" -> <<-1, 0>>]

\* handle_key gated on animating only
handle_key_NoWonGate(p, key) ==
    IF p.animating THEN p
    ELSE IF key \in DOMAIN move_map
         THEN LET new == <<p.empty_pos[1] + move_map[key][1],
                           p.empty_pos[2] + move_map[key][2]>>
              IN  IF InGrid(new, p.grid_size) THEN swap_tiles(p, new, TRUE)
                  ELSE p
         ELSE p

handle_key(p, key) ==
    IF p.game_won \/ p.animating THEN p
    ELSE IF key \in DOMAIN move_map
         THEN LET new == <<p.empty_pos[1] + move_map[key][1],
                           p.empty_pos[2] + move_map[key][2]>>
              IN  IF InGrid(new, p.grid_size) THEN swap_tiles(p, new, TRUE)
                  ELSE p
         ELSE p

\* check_win_condition with expected_x and expected_y exchanged
check_win_condition_Transposed(p) ==
    \A i \in 1..Len(p.tiles) :
        LET tile == p.tiles[i]
            expected_x == IF tile.number > 0
                          THEN (tile.number - 1) \div p.grid_size
                          ELSE p.grid_size - 1
            expected_y == IF tile.number > 0
                          THEN (tile.number - 1) % p.grid_size
                          ELSE p.grid_size - 1
        IN  tile.grid_pos = <<expected_x, expected_y>>

check_win_condition(p) ==
    \A i \in 1..Len(p.tiles) :
        LET tile == p.tiles[i]
            expected_x == IF tile.number > 0
                          THEN (tile.number - 1) % p.grid_size
                          ELSE p.grid_size - 1
            expected_y == IF tile.number > 0
                          THEN (tile.number - 1) \div p.grid_size
                          ELSE p.grid_size - 1
        IN  tile.grid_pos = <<expected_x, expected_y>>

\* update checking the win without looking at self.animating
update_NoAnimCheck(p) ==
    LET moved == [i \in 1..Len(p.tiles) |-> animate(p.tiles[i])]
        any_animating == \E i \in 1..Len(moved) : is_animating(moved[i])
        q == [p EXCEPT !.tiles = moved, !.animating = any_animating]
    IN  IF ~q.game_won /\ q.moves > 0 /\ check_win_condition(q)
        THEN [q EXCEPT !.game_won = TRUE]
        ELSE q

update(p) ==
    LET moved == [i \in 1..Len(p.tiles) |-> animate(p.tiles[i])]
        any_animating == \E i \in 1..Len(moved) : is_animating(moved[i])
        q == [p EXCEPT !.tiles = moved, !.animating = any_animating]
    IN  IF ~q.animating /\ ~q.game_won /\ q.moves > 0 /\ check_win_condition(q)
        THEN [q EXCEPT !.game_won = TRUE]
        ELSE q

\* Button.handle_event of reset_button for a left MOUSEBUTTONDOWN at pos
ResetHit(pos) ==
    /\ WINDOW_WIDTH \div 2 - 80 <= pos[1]
    /\ pos[1] < WINDOW_WIDTH \div 2 - 80 + 160
    /\ WINDOW_HEIGHT - 70 <= pos[2]
    /\ pos[2] < WINDOW_HEIGHT - 70 + 50

\* -------------------------------------------------------------- the state
Self == [grid_size |-> grid_size, tiles |-> tiles, empty_pos |-> empty_pos,
         moves |-> moves, game_won |-> game_won, animating |-> animating]

Becomes(p) ==
    /\ grid_size' = p.grid_size
    /\ tiles' = p.tiles
    /\ empty_pos' = p.empty_pos
    /\ moves' = p.moves
    /\ game_won' = p.game_won
    /\ animating' = p.animating

NoPos == <<0, 0>>

\* mouse positions tried: the middle of every grid cell, and one point left
\* of the grid and one below it
GridPoints(n) ==
    {<<grid_offset(n)[1] + g[1] * (TILE_SIZE + GRID_MARGIN) + 60,
       grid_offset(n)[2] + g[2] * (TILE_SIZE + GRID_MARGIN) + 60>> :
        g \in Cells(n) \cup {<<-1, 0>>, <<n - 1, n>>}}

\* a mouse position inside the reset button (for grid size 4 it is also
\* inside the bottom row of the grid)
ButtonPoints == {<<400, 635>>}

\* history: the last operation.  pos and key are the event's argument when
\* the handler got past its game_won/animating gate, gated tells that it
\* did not
Last(op, pos, key, gated) ==
    [op |-> op, pos |-> IF gated THEN NoPos ELSE pos,
     key |-> IF gated THEN "" ELSE key, gated |-> gated]

Gated == game_won \/ animating

\* the numbers of the tiles other than tile 0 whose target_pos differs between
\* old and new
Retargeted(old, new) ==
    {old[i].number : i \in {j \in 1..Len(old) :
                               /\ old[j].number # 0
                               /\ new[j].target_pos # old[j].target_pos}}

\* frame: the moves counter when the current frame of run() began, and the
\* tiles retargeted by click and key events since then
InFrame(p) ==
    [frame EXCEPT !.retargeted = @ \cup Retargeted(tiles, p.tiles)]

Init ==
    \E n \in 2..MaxGridSize :
        \E p \in init_puzzle(Construct(n)) :
            /\ grid_size = p.grid_size
            /\ tiles = p.tiles
            /\ empty_pos = p.empty_pos
            /\ moves = p.moves
            /\ game_won = p.game_won
            /\ animating = p.animating
            /\ last = Last("init", NoPos, "", FALSE)
            /\ frame = [moves |-> p.moves, retargeted |-> {}]

\* run(): a left MOUSEBUTTONDOWN outside the reset button
Click ==
    /\ moves < MaxMoves
    /\ \E pos \in GridPoints(grid_size) :
          /\ ~ResetHit(pos)
          /\ last' = Last("click", pos, "", Gated)
          /\ \E q \in {handle_click(Self, pos)} :
                Becomes(q) /\ frame' = InFrame(q)

\* run(): a KEYDOWN
Key ==
    /\ moves < MaxMoves
    /\ \E k \in Keys :
          /\ last' = Last("key", NoPos, k, Gated)
          /\ \E q \in {handle_key(Self, k)} :
                Becomes(q) /\ frame' = InFrame(q)

\* run(): a left MOUSEBUTTONDOWN on the reset button: handle_click sees the
\* event first, then the button starts a new game
NewGame ==
    \E pos \in ButtonPoints :
        /\ ResetHit(pos)
        /\ last' = Last("new", pos, "", FALSE)
        /\ \E q \in {handle_click(Self, pos)} :
              /\ frame' = InFrame(q)
              /\ \E p \in init_puzzle(q) : Becomes(p)

\* run(): update() once per frame
Tick ==
    /\ last' = Last("tick", NoPos, "", FALSE)
    /\ \E q \in {update(Self)} :
          /\ Becomes(q)
          /\ frame' = [moves |-> q.moves, retargeted |-> {}]

Next == Click \/ Key \/ NewGame \/ Tick

Spec == Init /\ [][Next]_vars

\* ------------------------------------------------- vocabulary of the claims
TileIds == 1..Len(tiles)

\* the index of the tile numbered 0 (the first one, were there several)
ZeroTile == CHOOSE i \in TileIds : tiles[i].number = 0

AllSettled == \A i \in TileIds : ~is_animating(tiles[i])

Adjacent(a, b) == Abs(a[1] - b[1]) + Abs(a[2] - b[2]) = 1

\* the cell where the tile numbered L belongs in the solved arrangement
HomeCell(L, n) == IF L = 0 THEN <<n - 1, n - 1>>
                  ELSE <<(L - 1) % n, (L - 1) \div n>>

\* A reference sliding puzzle: a board gives the cell of every label.
RefSolved(n) == [L \in 0..(n * n - 1) |-> HomeCell(L, n)]

\* the boards one legal slide away: a label next to the empty cell (the cell
\* of label 0) changes places with it
RefSlides(b, n) ==
    {[b EXCEPT ![0] = b[L], ![L] = b[0]] :
        L \in {M \in 1..(n * n - 1) : Adjacent(b[M], b[0])}}

RECURSIVE RefReach(_, _, _)
RefReach(B, n, k) ==
    IF k = 0 THEN B
    ELSE RefReach(UNION {RefSlides(b, n) : b \in B}, n, k - 1)

\* the cell every label ends up at once the tiles settle
TargetBoard ==
    [L \in 0..(grid_size * grid_size - 1) |->
        tiles[CHOOSE i \in TileIds : tiles[i].number = L].target_pos]

TargetsOf(ts) == [i \in 1..Len(ts) |-> ts[i].target_pos]

\* ------------------------------------------------------------------ claims

\* C1: in every reachable state exactly one tile has number 0 and the tiles'
\* grid_pos are pairwise distinct and cover all n*n cells.
C1_OneTilePerCell ==
    /\ Cardinality({i \in TileIds : tiles[i].number = 0}) = 1
    /\ \A c \in Cells(grid_size) :
          Cardinality({i \in TileIds : tiles[i].grid_pos = c}) = 1

\* C2: the arrangement the tiles settle into after shuffle_puzzle(k) from the
\* solved arrangement is one the reference puzzle reaches from solved by k
\* legal slides.
C2_ShuffleIsLegalWalk ==
    last.op \in {"init", "new"} =>
        TargetBoard \in RefReach({RefSolved(grid_size)}, grid_size, ShuffleMoves)

\* C3: empty_pos equals the target_pos of tile 0, and its grid_pos whenever
\* tile 0 is not animating.
C3_EmptyPosInSync ==
    /\ empty_pos = tiles[ZeroTile].target_pos
    /\ ~is_animating(tiles[ZeroTile]) => empty_pos = tiles[ZeroTile].grid_pos

\* C4: while some tile is mid-animation a click or a key press changes no
\* tile's target_pos, nor empty_pos, nor moves.
C4_InputGatedWhileAnimating ==
    [][(~AllSettled /\ last'.op \in {"click", "key"})
         => /\ TargetsOf(tiles') = TargetsOf(tiles)
            /\ empty_pos' = empty_pos
            /\ moves' = moves]_vars

\* the cell an arrow key asks to move, <<-1, -1>> for any other key
KeyCell(key) ==
    IF key \in DOMAIN move_map
    THEN <<empty_pos[1] + move_map[key][1], empty_pos[2] + move_map[key][2]>>
    ELSE <<-1, -1>>

\* the event of this step is one the claim C5 is about: a click on a cell
\* that is not a valid move, or an arrow key whose cell is outside the grid
\* (an event dropped by the gate carries no argument and is covered whatever
\* its argument was)
RejectedInput(l) ==
    \/ /\ l.op = "click"
       /\ \/ l.gated
          \/ ~InSeq(ClickCell(grid_size, l.pos), get_valid_moves(Self))
    \/ /\ l.op = "key"
       /\ \/ l.gated
          \/ /\ l.key \in DOMAIN move_map
             /\ ~InGrid(KeyCell(l.key), grid_size)

\* C5: a click on a cell not in get_valid_moves(), or a key press whose cell
\* is outside the grid, leaves tiles, empty_pos, moves, animating and
\* game_won unchanged.
C5_InvalidInputRejected ==
    [][RejectedInput(last')
         => UNCHANGED <<tiles, empty_pos, moves, animating, game_won>>]_vars

\* a click got past the gate, hit a grid cell that is neither a valid move
\* nor outside the grid, and nothing moved
C5_Witness ==
    /\ last.op = "click" /\ ~last.gated
    /\ InGrid(ClickCell(grid_size, last.pos), grid_size)
    /\ ~InSeq(ClickCell(grid_size, last.pos), get_valid_moves(Self))
    /\ ClickCell(grid_size, last.pos) # empty_pos
    /\ ~animating

\* C6: when the game is not won and nothing is animating, a click on a cell C
\* of get_valid_moves() gives the tile at C the previous empty_pos as target,
\* gives tile 0 the target C, makes empty_pos C and adds 1 to moves.
C6_ValidClickAccepted ==
    [][(/\ last'.op = "click"
        /\ ~game_won /\ ~animating /\ AllSettled
        /\ InSeq(ClickCell(grid_size, last'.pos), get_valid_moves(Self)))
         => LET C == ClickCell(grid_size, last'.pos)
            IN  /\ \A i \in TileIds :
                      (tiles[i].grid_pos = C /\ tiles[i].number # 0)
                          => tiles'[i].target_pos = empty_pos
                /\ \E i \in TileIds : tiles[i].grid_pos = C /\ tiles[i].number # 0
                /\ tiles'[ZeroTile].target_pos = C
                /\ empty_pos' = C
                /\ moves' = moves + 1]_vars

\* C7: game_won becomes true only in a tick after which no tile is animating,
\* moves > 0 and every tile is in its home cell; so game_won implies moves > 0,
\* no tile animating and check_win_condition().
C7_WonOnlyWhenSolved ==
    [][/\ (~game_won /\ game_won') => last'.op = "tick"
       /\ game_won' => /\ moves' > 0
                       /\ \A i \in 1..Len(tiles') : ~is_animating(tiles'[i])
                       /\ \A i \in 1..Len(tiles') :
                             tiles'[i].grid_pos =
                                 HomeCell(tiles'[i].number, grid_size)]_vars

\* the tick that declares the win
C7_Witness == game_won /\ last.op = "tick" /\ moves > 0 /\ AllSettled

\* C8: once game_won is true, clicks and key presses change nothing, ticks do
\* not change the tiles, and game_won stays true until a new game.
C8_WonIsTerminal ==
    [][game_won
         => /\ last'.op \in {"click", "key"}
                  => UNCHANGED <<tiles, empty_pos, moves>>
            /\ last'.op = "tick" => tiles' = tiles
            /\ game_won' \/ last'.op = "new"]_vars

\* a click or key press arrived after the win
C8_Witness == game_won /\ last.op \in {"click", "key"} /\ last.gated

\* C9: get_valid_moves() returns 2 to 4 distinct cells, exactly the cells of
\* the grid 4-adjacent to empty_pos: 2 in a corner, 3 on an edge, 4 inside.
C9_ValidMoves ==
    LET vm == get_valid_moves(Self)
        n == grid_size
        onEdgeX == empty_pos[1] \in {0, n - 1}
        onEdgeY == empty_pos[2] \in {0, n - 1}
    IN  /\ Len(vm) \in 2..4
        /\ \A i, j \in 1..Len(vm) : i # j => vm[i] # vm[j]
        /\ {vm[i] : i \in 1..Len(vm)} =
               {c \in Cells(n) : Adjacent(c, empty_pos)}
        /\ Len(vm) = IF onEdgeX /\ onEdgeY THEN 2
                     ELSE IF onEdgeX \/ onEdgeY THEN 3 ELSE 4

\* the empty cell is in the interior of the grid
C9_Witness ==
    /\ empty_pos[1] \notin {0, grid_size - 1}
    /\ empty_pos[2] \notin {0, grid_size - 1}
    /\ Len(get_valid_moves(Self)) = 4

\* C10: check_win_condition() is true iff every label is in its home cell; it
\* is true of the solved arrangement init_puzzle builds before shuffling.
C10_WinCondition ==
    /\ check_win_condition(Self)
          <=> \A L \in 0..(grid_size * grid_size - 1) :
                 \A i \in TileIds :
                    tiles[i].number = L
                       => tiles[i].grid_pos = RefSolved(grid_size)[L]
    /\ check_win_condition([Self EXCEPT !.tiles = SolvedTiles(grid_size)])

\* the player slid the tiles back into the solved arrangement
C10_Witness == check_win_condition(Self) /\ moves > 0 /\ AllSettled

\* ---------------------------------------------------------------- liveness
\* run() calls update() in every frame, whatever events arrive: a tick that
\* would change the state is eventually taken
SpecLive == Spec /\ WF_vars(Tick)

\* every tile is at the pixel position of its target cell on both axes, has
\* grid_pos = target_pos, and the animating flag is false
SettledExactly ==
    /\ \A i \in TileIds :
          /\ tiles[i].current_pixel_pos =
                 <<PixelOf(tiles[i].target_pos[1]), PixelOf(tiles[i].target_pos[2])>>
          /\ tiles[i].grid_pos = tiles[i].target_pos
    /\ ~animating

\* the last step accepted a move or started a new game
MoveOrNewGame ==
    \/ last.op = "new"
    \/ last.op \in {"click", "key"} /\ ~last.gated /\ animating

\* C11: under continued ticks, unless a further move is accepted or a new game
\* starts, every tile reaches its target pixel position exactly, has
\* grid_pos = target_pos and animating is false; further ticks keep it so.
C11_AnimationTerminates ==
    /\ (~SettledExactly) ~> (SettledExactly \/ MoveOrNewGame)
    /\ [][(SettledExactly /\ last'.op = "tick") => SettledExactly']_vars

\* the tick in which the last tile snapped onto its target
C11_Witness == SettledExactly /\ last.op = "tick" /\ moves > 0

\* C12: between operations the animating flag is true exactly when some tile
\* is unsettled (its grid_pos differs from its target_pos).
C12_AnimatingFlagExact ==
    animating <=> \E i \in TileIds : is_animating(tiles[i])

\* C13: within one frame (the events handled between two consecutive ticks)
\* moves grows by at most 1 and at most one tile other than tile 0 gets a new
\* target_pos from click and key events.
C13_OneMovePerFrame ==
    /\ moves <= frame.moves + 1
    /\ Cardinality(frame.retargeted) <= 1

\* the mouse position in the middle of grid cell c
CellPoint(n, c) ==
    <<grid_offset(n)[1] + c[1] * (TILE_SIZE + GRID_MARGIN) + 60,
      grid_offset(n)[2] + c[2] * (TILE_SIZE + GRID_MARGIN) + 60>>

\* update() repeated until it changes nothing more
RECURSIVE Settle(_)
Settle(p) ==
    LET q == update(p)
    IN  IF q = p THEN p ELSE Settle(q)

GridPosOf(ts) == [i \in 1..Len(ts) |-> ts[i].grid_pos]

\* the puzzle after: click on cell c, settle, click on the cell that was
\* empty before, settle
RoundTrip(p, c) ==
    LET first == handle_click(p, CellPoint(p.grid_size, c))
        back  == handle_click(Settle(first), CellPoint(p.grid_size, p.empty_pos))
    IN  [first |-> first, back |-> back, settled |-> Settle(back)]

\* C14: from a settled, not-won state with empty cell E, an accepted move on a
\* legal cell C, settled, followed by an accepted move on cell E, settled,
\* gives every tile its grid_pos and empty_pos their values from before the
\* first move, with moves increased by 2.
C14_MovesSelfInverse ==
    (AllSettled /\ ~animating /\ ~game_won) =>
        \A k \in 1..Len(get_valid_moves(Self)) :
            LET r == RoundTrip(Self, get_valid_moves(Self)[k])
            IN  (r.first.moves = moves + 1 /\ r.back.moves = moves + 2) =>
                    /\ GridPosOf(r.settled.tiles) = GridPosOf(tiles)
                    /\ r.settled.empty_pos = empty_pos
                    /\ r.settled.moves = moves + 2

\* the cell an arrow key stands for, as the claim C15 words it: with the empty
\* cell (ex, ey) and y growing downward
ArrowCell(key, ex, ey) ==
    CASE key = "K_UP" -> <<ex, ey + 1>>
      [] key = "K_DOWN" -> <<ex, ey - 1>>
      [] key = "K_LEFT" -> <<ex + 1, ey>>
      [] key = "K_RIGHT" -> <<ex - 1, ey>>

\* C15: an arrow key that gets past the gate has exactly the effect of a click
\* on the cell below (UP), above (DOWN), right of (LEFT) or left of (RIGHT) the
\* empty cell, and when the move is accepted the tile on that cell is sent to
\* the empty cell; a key whose cell is outside the grid changes nothing.
C15_ArrowKeySemantics ==
    [][(last'.op = "key" /\ ~last'.gated
            /\ last'.key \in {"K_UP", "K_DOWN", "K_LEFT", "K_RIGHT"})
       => LET c == ArrowCell(last'.key, empty_pos[1], empty_pos[2])
          IN  IF InGrid(c, grid_size)
              THEN /\ Self' = handle_click(Self, CellPoint(grid_size, c))
                   /\ moves' = moves + 1 =>
                        \E i \in TileIds :
                            /\ tiles[i].grid_pos = c
                            /\ tiles'[i].target_pos = empty_pos
                            /\ empty_pos' = c
              ELSE Self' = Self]_vars

C15_Witness ==
    /\ last.op = "key" /\ last.key = "K_UP" /\ ~last.gated
    /\ animating /\ moves > 0

\* C16: shuffle_puzzle changes neither moves nor the animating flag, and
\* directly after init_puzzle (and so after shuffle_puzzle) returns, moves is 0
\* and no tile is animating: every grid_pos equals its target_pos.
C16_ShuffleSilentInstant ==
    /\ \A s \in shuffle_puzzle({Self}, ShuffleMoves) :
          s.moves = moves /\ s.animating = animating
    /\ last.op \in {"init", "new"} =>
          /\ moves = 0
          /\ \A i \in TileIds : tiles[i].grid_pos = tiles[i].target_pos

\* C17: after a new game the puzzle state (tiles, empty_pos, moves, game_won,
\* animating) is one that a freshly constructed game of this grid size can
\* have.
C17_NewGameReplacesState ==
    last.op = "new" => Self \in init_puzzle(Construct(grid_size))

\* how a call swap_tiles(tile_pos) ends: the body has no raise statement, it
\* either performs the swap or falls through both if statements
swap_tiles_outcome(p, tile_pos) ==
    LET t == get_tile_at_pos(p, tile_pos)
    IN  IF t # 0 /\ p.tiles[t].number # 0 THEN "swapped" ELSE "ignored"

\* the cells bordering the grid from outside
OutsideCells(n) ==
    {c \in (-1..n) \X (-1..n) : ~InGrid(c, n)}

\* C18: a swap requested on a cell outside the grid ends with the error
\* InvalidSwap and leaves the puzzle as it was.
C18_OutOfBoundsSwapFails ==
    \A c \in OutsideCells(grid_size) :
        /\ swap_tiles_outcome(Self, c) = "InvalidSwap"
        /\ swap_tiles(Self, c, TRUE) = Self

\* every tile's target_pos is its cell in the solved arrangement
HeadingToSolved ==
    \A i \in TileIds : tiles[i].target_pos = HomeCell(tiles[i].number, grid_size)

\* the last step was a click or key press that moved a tile
AcceptedMove ==
    last.op \in {"click", "key"} /\ ~last.gated /\ animating /\ moves > 0

\* C19: once an accepted move has left the tiles heading to the solved
\* arrangement, continued ticks lead to game_won (unless a new game starts
\* first), and game_won is set by the very tick in which the last tile settles.
C19_WinEventuallyDetected ==
    /\ (AcceptedMove /\ HeadingToSolved) ~> (game_won \/ last.op = "new")
    /\ [][(/\ last'.op = "tick"
           /\ HeadingToSolved /\ moves > 0 /\ ~game_won
           /\ ~AllSettled /\ AllSettled')
          => game_won']_vars

C19_Witness ==
    /\ game_won /\ last.op = "tick"
    /\ HeadingToSolved /\ SettledExactly

\* between old and new only target_pos differs, and for at most one tile
\* other than tile 0
OnlyRetargets(old, new) ==
    /\ \A i \in 1..Len(old) :
          /\ new[i].number = old[i].number
          /\ new[i].grid_pos = old[i].grid_pos
          /\ new[i].current_pixel_pos = old[i].current_pixel_pos
    /\ Cardinality(Retargeted(old, new)) <= 1

\* a tile's grid_pos changes only in a tick that brings its pixel position
\* exactly onto the target, and then becomes the target_pos
GridPosOnlyByArrival ==
    \A i \in TileIds :
        tiles'[i].grid_pos # tiles[i].grid_pos
            => /\ last'.op = "tick"
               /\ tiles'[i].grid_pos = tiles[i].target_pos
               /\ tiles'[i].current_pixel_pos =
                      <<PixelOf(tiles[i].target_pos[1]),
                        PixelOf(tiles[i].target_pos[2])>>

\* C20: outside a new game, a tile's grid_pos changes only in the tick in
\* which its pixel position reaches the target exactly, and becomes target_pos;
\* a click, a key press or a shuffle step changes only target_pos, of the
\* moved tile and tile 0, and nothing else of any tile.
C20_TileStateMachine ==
    [][/\ last'.op # "new" => GridPosOnlyByArrival
       /\ last'.op \in {"click", "key"} => OnlyRetargets(tiles, tiles')
       /\ \A s \in ShuffleStep(Self) : OnlyRetargets(tiles, s.tiles)]_vars

\* the pixel position of grid cell c
PixelPosOf(c) == <<PixelOf(c[1]), PixelOf(c[2])>>

\* C21: in every reachable state a tile's is_animating() is false exactly when
\* its current pixel position is the pixel position of its target cell on both
\* axes; the tiles init_puzzle leaves stand on the pixel position of their
\* grid_pos, and a tile whose target is changed by a click or key press starts
\* its slide from the pixel position of its grid_pos.
C21_SettledAgreesWithPixels ==
    /\ [](\A i \in TileIds :
            ~is_animating(tiles[i])
                <=> tiles[i].current_pixel_pos = PixelPosOf(tiles[i].target_pos))
    /\ [](last.op \in {"init", "new"}
            => \A i \in TileIds :
                  tiles[i].current_pixel_pos = PixelPosOf(tiles[i].grid_pos))
    /\ [][last'.op \in {"click", "key"}
            => \A i \in TileIds :
                  tiles'[i].target_pos # tiles[i].target_pos
                     => tiles[i].current_pixel_pos = PixelPosOf(tiles[i].grid_pos)]_vars

\* a move has just been accepted and its tile is about to leave the pixel
\* position of its grid_pos
C21_Witness ==
    /\ AcceptedMove
    /\ frame.retargeted # {}
    /\ \E i \in TileIds :
          /\ tiles[i].number \in frame.retargeted
          /\ is_animating(tiles[i])
          /\ tiles[i].current_pixel_pos = PixelPosOf(tiles[i].grid_pos)

====
